---- MODULE Spec2Model ----
(***************************************************************************)
(* Chaum-Pedersen discrete-log-equality proofs (package dleq): the scalar  *)
(* sampler randScalar, the constructor NewProof and Proof.Verify, over     *)
(* small short-Weierstrass curves y^2 = x^3 - 3x + b of prime order.       *)
(*                                                                         *)
(* Go values are modelled as follows.  A pointer or *big.Int that may be   *)
(* nil is a sequence of length at most one (<<>> is nil).  A byte slice is *)
(* a sequence of numbers in 0..255.  An error is a string, "nil" for none. *)
(* A boolean result that may also be a run-time panic is one of the        *)
(* strings "true", "false", "panic".                                       *)
(***************************************************************************)
EXTENDS Integers, Sequences, FiniteSets, TLC

VARIABLES
    heap,      \* the caller's Point objects, by pointer ("g", "h", "m", "z")
    hash,      \* the crypto.Hash argument of NewProof
    x,         \* the secret scalar argument of NewProof
    pc,        \* where the caller is
    origin,    \* how the Proof value came to be: "none", "NewProof", "crafted"
    sN,        \* randScalar: N := curve.Params().N
    buf,       \* randScalar: buf
    spc,       \* randScalar: "idle", "loop" (inside for true), "done" (returned)
    sRet,      \* randScalar: the returned triple
    lastRead,  \* what the last io.ReadFull delivered
    draws,     \* number of io.ReadFull calls made
    errAt,     \* the read (1-based) at which the entropy source first failed, 0 if none
    oracle,    \* the hash function, as far as it has been evaluated
    proof,     \* the *Proof under consideration (<<>> is nil)
    err,       \* the error NewProof returned
    verdict,   \* what the last Verify() returned
    snapshot,  \* the fields of the Proof as they were when NewProof returned
    orig,      \* the Proof before a bit of it was flipped
    tamper,    \* which field and bit was flipped
    mutated    \* whether the caller wrote to one of its Point objects after NewProof

vars == <<heap, hash, x, pc, origin, sN, buf, spc, sRet, lastRead, draws, errAt,
          oracle, proof, err, verdict, snapshot, orig, tamper, mutated>>

\* ------------------------------------------------------------- bounds

\* The largest number of io.ReadFull calls one randScalar call is followed through.
MaxDraws == 2
\* The digest length of the hash function, in bytes.
HashSize == 1
\* The highest bit position that is flipped in R or C.
MaxBit == 3

\* The byte values the entropy source delivers.
EntropyBytes == {0, 2, 5, 199, 251, 255}
\* The byte values a digest is made of.
DigestBytes == {0, 1, 3, 8}
\* The subgroup orders randScalar is run on by itself.
SamplerOrders == {1, 5, 7, 199, 200, 255, 256, 300, 65535}
\* The scalars a hand-made Proof carries.
CraftScalars == {0, 1, 3, 8}

\* ------------------------------------------------- bytes and big.Int

RECURSIVE BitLen(_)
\* big.Int.BitLen
BitLen(n) == IF n = 0 THEN 0 ELSE 1 + BitLen(n \div 2)

RECURSIVE BitAnd(_, _)
\* the & of two bytes
BitAnd(a, b) ==
    IF a = 0 \/ b = 0 THEN 0
    ELSE (a % 2) * (b % 2) + 2 * BitAnd(a \div 2, b \div 2)

RECURSIVE SetBytes(_)
\* big.Int.SetBytes: the big-endian unsigned value of a byte slice
SetBytes(b) ==
    IF Len(b) = 0 THEN 0
    ELSE 256 * SetBytes(SubSeq(b, 1, Len(b) - 1)) + b[Len(b)]

Abs(a) == IF a < 0 THEN -a ELSE a

RECURSIVE NatBytes(_)
NatBytes(n) == IF n = 0 THEN <<>> ELSE Append(NatBytes(n \div 256), n % 256)

\* big.Int.Bytes: the minimal big-endian encoding of the absolute value
Bytes(a) == NatBytes(Abs(a))

RECURSIVE FillBytes(_, _)
\* the fixed-width big-endian encoding elliptic.Marshal gives a coordinate
FillBytes(n, width) ==
    IF width = 0 THEN <<>>
    ELSE Append(FillBytes(n \div 256, width - 1), n % 256)

\* big.Int.Mod: the Euclidean modulus, in 0..n-1 for every a
BigMod(a, n) == a % n

\* hmac.Equal: equal length and equal contents
HmacEqual(a, b) == Len(a) = Len(b) /\ a = b

\* ------------------------------------------------------------- curves

\* elliptic.Curve values; each stands for y^2 = x^3 - 3x + B over GF(P), whose
\* group has prime order N.
Curves == {"E7", "E5"}

Params(c) ==
    IF c = "E7" THEN [P |-> 7, B |-> 1, N |-> 5, BitSize |-> 3]
    ELSE [P |-> 5, B |-> 1, N |-> 7, BitSize |-> 3]

\* the point at infinity, as crypto/elliptic returns it
Infinity == <<0, 0>>

Inv(a, p) == CHOOSE i \in 1..(p - 1) : (a * i) % p = 1

\* Curve.IsOnCurve on populated coordinates
CurveIsOnCurve(c, px, py) ==
    LET p == Params(c).P IN
    /\ px >= 0 /\ px < p /\ py >= 0 /\ py < p
    /\ (py * py) % p = (px * px * px - 3 * px + Params(c).B) % p

\* Curve.Add
CurveAdd(c, a, b) ==
    LET p == Params(c).P IN
    IF a = Infinity THEN b
    ELSE IF b = Infinity THEN a
    ELSE IF a[1] = b[1] /\ (a[2] + b[2]) % p = 0 THEN Infinity
    ELSE LET l == IF a = b
                  THEN ((3 * a[1] * a[1] - 3) * Inv((2 * a[2]) % p, p)) % p
                  ELSE ((b[2] - a[2]) * Inv((b[1] - a[1]) % p, p)) % p
             rx == (l * l - a[1] - b[1]) % p
         IN <<rx, (l * (a[1] - rx) - a[2]) % p>>

RECURSIVE DoubleAndAdd(_, _, _)
DoubleAndAdd(c, a, k) ==
    IF k = 0 THEN Infinity
    ELSE LET half == DoubleAndAdd(c, a, k \div 2)
             dbl == CurveAdd(c, half, half)
         IN IF k % 2 = 1 THEN CurveAdd(c, dbl, a) ELSE dbl

\* Curve.ScalarMult: the scalar is a big-endian byte slice
CurveScalarMult(c, a, k) == DoubleAndAdd(c, a, SetBytes(k))

\* elliptic.Marshal: the uncompressed form 0x04 || X || Y
EllipticMarshal(c, a) ==
    LET w == (Params(c).BitSize + 7) \div 8 IN
    <<4>> \o FillBytes(a[1], w) \o FillBytes(a[2], w)

\* ------------------------------------------------------------- Point

\* A Point value with every field populated.
Pt(c, px, py) == [Curve |-> c, X |-> <<px>>, Y |-> <<py>>]

Populated(p) == p.Curve # "nil" /\ p.X # <<>> /\ p.Y # <<>>

XY(p) == <<p.X[1], p.Y[1]>>

\* Point.IsOnCurve: a method call on a nil interface, or arithmetic on a nil
\* *big.Int, is a run-time panic
IsOnCurve(p) ==
    IF ~Populated(p) THEN "panic"
    ELSE IF CurveIsOnCurve(p.Curve, p.X[1], p.Y[1]) THEN "true" ELSE "false"

\* Point.Marshal
Marshal(p) == EllipticMarshal(p.Curve, XY(p))

\* -------------------------------------------------------- randScalar

\* var mask: the ones that survive in the top byte, indexed by bitSize % 8
mask == <<255, 1, 3, 7, 15, 31, 63, 127>>

\* byteSize := (bitSize + 7) / 8
ByteSize(N) == (BitLen(N) + 7) \div 8

\* buf := make([]byte, byteSize)
MakeBuf(n) == [i \in 1..n |-> 0]

\* What one io.ReadFull(rand, buf) can do: fill buf and return nil; read nothing
\* and return io.EOF; read a proper prefix and return io.ErrUnexpectedEOF; or
\* hand on the reader's own error after a proper prefix.
ReadOutcomes(n) ==
    {[bytes |-> b, err |-> "nil"] : b \in [1..n -> EntropyBytes]}
    \cup {[bytes |-> <<>>, err |-> e] : e \in {"EOF", "ErrReader"}}
    \cup {[bytes |-> b, err |-> e] :
            b \in UNION {[1..k -> {0, 255}] : k \in 1..(n - 1)},
            e \in {"ErrUnexpectedEOF", "ErrReader"}}

\* the bytes a read wrote over the front of buf
Overwrite(b, bytes) ==
    [i \in 1..Len(b) |-> IF i <= Len(bytes) THEN bytes[i] ELSE b[i]]

\* The triple randScalar returns.
NoRet == [buf |-> <<>>, k |-> <<>>, err |-> "nil"]

\* RandScalarIter with `> 0` for `>= 0` in the range check: N itself is accepted.
RandScalarIterAcceptsN(N, b, rd) ==
    LET bitSize == BitLen(N)
        filled == Overwrite(b, rd.bytes)
    IN  IF rd.err # "nil"
        THEN [spc |-> "done", buf |-> filled,
              ret |-> [buf |-> <<>>, k |-> <<>>, err |-> rd.err]]
        ELSE LET masked ==
                    [filled EXCEPT ![1] = BitAnd(filled[1], mask[(bitSize % 8) + 1])]
             IN  IF SetBytes(masked) > N
                 THEN [spc |-> "loop", buf |-> masked, ret |-> NoRet]
                 ELSE [spc |-> "done", buf |-> masked,
                       ret |-> [buf |-> <<masked>>, k |-> <<SetBytes(masked)>>,
                                err |-> "nil"]]

\* RandScalarIter with `continue` for the error return: a failed read is retried.
RandScalarIterRetries(N, b, rd) ==
    LET bitSize == BitLen(N)
        filled == Overwrite(b, rd.bytes)
    IN  IF rd.err # "nil"
        THEN [spc |-> "loop", buf |-> filled, ret |-> NoRet]
        ELSE LET masked ==
                    [filled EXCEPT ![1] = BitAnd(filled[1], mask[(bitSize % 8) + 1])]
             IN  IF SetBytes(masked) >= N
                 THEN [spc |-> "loop", buf |-> masked, ret |-> NoRet]
                 ELSE [spc |-> "done", buf |-> masked,
                       ret |-> [buf |-> <<masked>>, k |-> <<SetBytes(masked)>>,
                                err |-> "nil"]]

\* RandScalarIter with `< 0` for `>= 0` in the range check: the scalars in range
\* are the ones redrawn.
RandScalarIterInverted(N, b, rd) ==
    LET bitSize == BitLen(N)
        filled == Overwrite(b, rd.bytes)
    IN  IF rd.err # "nil"
        THEN [spc |-> "done", buf |-> filled,
              ret |-> [buf |-> <<>>, k |-> <<>>, err |-> rd.err]]
        ELSE LET masked ==
                    [filled EXCEPT ![1] = BitAnd(filled[1], mask[(bitSize % 8) + 1])]
             IN  IF SetBytes(masked) < N
                 THEN [spc |-> "loop", buf |-> masked, ret |-> NoRet]
                 ELSE [spc |-> "done", buf |-> masked,
                       ret |-> [buf |-> <<masked>>, k |-> <<SetBytes(masked)>>,
                                err |-> "nil"]]

\* One pass through the body of `for true`, given what the read delivered: the
\* error return, the continue, or the break followed by the final return.
RandScalarIter(N, b, rd) ==
    LET bitSize == BitLen(N)
        filled == Overwrite(b, rd.bytes)
    IN  IF rd.err # "nil"
        THEN [spc |-> "done", buf |-> filled,
              ret |-> [buf |-> <<>>, k |-> <<>>, err |-> rd.err]]
        ELSE LET masked ==
                    [filled EXCEPT ![1] = BitAnd(filled[1], mask[(bitSize % 8) + 1])]
             IN  IF SetBytes(masked) >= N
                 THEN [spc |-> "loop", buf |-> masked, ret |-> NoRet]
                 ELSE [spc |-> "done", buf |-> masked,
                       ret |-> [buf |-> <<masked>>, k |-> <<SetBytes(masked)>>,
                                err |-> "nil"]]

\* ---------------------------------------------------------- the hash

\* The digests a hash of HashSize bytes can give.
Digests == [1..HashSize -> DigestBytes]

\* hash.New(); Write...; Sum(nil): the digest of transcript t.  The hash is a
\* function (a transcript seen before has the digest it had) without collisions
\* (a new transcript gets a digest no other transcript has).
HashChoices(orc, t) ==
    IF \E e \in orc : e.t = t
    THEN {e.d : e \in {f \in orc : f.t = t}}
    ELSE Digests \ {e.d : e \in orc}

Digest(orc, t) == CHOOSE d \in HashChoices(orc, t) : TRUE

Hashed(orc, t) == \E e \in orc : e.t = t

\* ------------------------------------------------------------ NewProof

Refs == {"g", "h", "m", "z"}

RECURSIVE AnyOffCurve(_)
\* !a.IsOnCurve() || !b.IsOnCurve() || ..., left to right, stopping at the first
\* point that is off its curve
AnyOffCurve(ps) ==
    IF ps = <<>> THEN "false"
    ELSE LET r == IsOnCurve(Head(ps))
         IN  IF r = "panic" THEN "panic"
             ELSE IF r = "false" THEN "true"
             ELSE AnyOffCurve(Tail(ps))

CurvesDiffer(g, h, m, z) ==
    g.Curve # h.Curve \/ h.Curve # m.Curve \/ m.Curve # z.Curve

\* NewProofCheck with its two checks in the other order.
NewProofCheckOnCurveFirst(g, h, m, z) ==
    LET off == AnyOffCurve(<<g, h, m, z>>)
    IN  IF off = "true" THEN "ErrPointOffCurve"
        ELSE IF off = "panic" THEN "panic"
        ELSE IF CurvesDiffer(g, h, m, z) THEN "ErrInconsistentCurves"
        ELSE "nil"

\* The two checks NewProof opens with: the error it returns, or "nil".
NewProofCheck(g, h, m, z) ==
    IF CurvesDiffer(g, h, m, z) THEN "ErrInconsistentCurves"
    ELSE LET off == AnyOffCurve(<<g, h, m, z>>)
         IN  IF off = "true" THEN "ErrPointOffCurve"
             ELSE IF off = "panic" THEN "panic"
             ELSE "nil"

\* What NewProof writes into the hash.
NewProofTranscript(g, h, m, z, sBytes) ==
    LET curve == g.Curve
        A == CurveScalarMult(curve, XY(g), sBytes)
        B == CurveScalarMult(curve, XY(m), sBytes)
    IN  Marshal(g) \o Marshal(h) \o Marshal(m) \o Marshal(z)
        \o EllipticMarshal(curve, A) \o EllipticMarshal(curve, B)

\* c := new(big.Int).SetBytes(cBytes); c.Mod(c, N)
NewProofC(cBytes, N) == BigMod(SetBytes(cBytes), N)

\* NewProofR without the negation: r = s + c*x.
NewProofRPlus(c, xx, s, N) == BigMod(c * xx + s, N)

\* r = -c; r = r*x; r = r + s; r = r mod N
NewProofR(c, xx, s, N) == BigMod((-c) * xx + s, N)

\* ------------------------------------------------------------- Verify

\* Proof.IsComplete
IsComplete(pr) ==
    /\ pr.G # "nil" /\ pr.M # "nil" /\ pr.H # "nil" /\ pr.Z # "nil"
    /\ pr.R # <<>> /\ pr.C # <<>>

\* Proof.IsSane
IsSane(pr, hp) ==
    IF CurvesDiffer(hp[pr.G], hp[pr.H], hp[pr.M], hp[pr.Z]) THEN "false"
    ELSE LET off == AnyOffCurve(<<hp[pr.G], hp[pr.H], hp[pr.M], hp[pr.Z]>>)
         IN  IF off = "panic" THEN "panic"
             ELSE IF off = "true" THEN "false"
             ELSE "true"

\* A = rG + cH
VerifyA(pr, hp) ==
    LET curve == hp[pr.G].Curve
        cH == CurveScalarMult(curve, XY(hp[pr.H]), Bytes(pr.C[1]))
        rG == CurveScalarMult(curve, XY(hp[pr.G]), Bytes(pr.R[1]))
    IN  CurveAdd(curve, rG, cH)

\* VerifyB with the lines of A copied and not edited: rG + cH.
VerifyBFromGH(pr, hp) ==
    LET curve == hp[pr.G].Curve
        cH == CurveScalarMult(curve, XY(hp[pr.H]), Bytes(pr.C[1]))
        rG == CurveScalarMult(curve, XY(hp[pr.G]), Bytes(pr.R[1]))
    IN  CurveAdd(curve, rG, cH)

\* B = rM + cZ
VerifyB(pr, hp) ==
    LET curve == hp[pr.G].Curve
        cZ == CurveScalarMult(curve, XY(hp[pr.Z]), Bytes(pr.C[1]))
        rM == CurveScalarMult(curve, XY(hp[pr.M]), Bytes(pr.R[1]))
    IN  CurveAdd(curve, rM, cZ)

\* VerifyTranscript with cH and cZ written where the sums A and B belong.
VerifyTranscriptOfParts(pr, hp) ==
    LET curve == hp[pr.G].Curve
        cH == CurveScalarMult(curve, XY(hp[pr.H]), Bytes(pr.C[1]))
        cZ == CurveScalarMult(curve, XY(hp[pr.Z]), Bytes(pr.C[1]))
    IN  Marshal(hp[pr.G]) \o Marshal(hp[pr.H]) \o Marshal(hp[pr.M]) \o Marshal(hp[pr.Z])
        \o EllipticMarshal(curve, cH)
        \o EllipticMarshal(curve, cZ)

\* What Verify writes into the hash.
VerifyTranscript(pr, hp) ==
    LET curve == hp[pr.G].Curve
    IN  Marshal(hp[pr.G]) \o Marshal(hp[pr.H]) \o Marshal(hp[pr.M]) \o Marshal(hp[pr.Z])
        \o EllipticMarshal(curve, VerifyA(pr, hp))
        \o EllipticMarshal(curve, VerifyB(pr, hp))

\* Verify up to the hash: "false" (the early return), "panic" (in IsSane, or in
\* hash.New() of a hash that is not registered), or "ok".
VerifyPre(pr, hp) ==
    IF ~IsComplete(pr) THEN "false"
    ELSE LET sane == IsSane(pr, hp)
         IN  IF sane # "true" THEN sane
             ELSE IF pr.hash = "none" THEN "panic"
             ELSE "ok"

\* return hmac.Equal(pr.C.Bytes(), c)
VerifyCompare(pr, c) == IF HmacEqual(Bytes(pr.C[1]), c) THEN "true" ELSE "false"

\* The fields of a Proof as a reader of it sees them, pointers followed.
View(pr, hp) ==
    [G |-> IF pr.G = "nil" THEN <<>> ELSE <<hp[pr.G]>>,
     M |-> IF pr.M = "nil" THEN <<>> ELSE <<hp[pr.M]>>,
     H |-> IF pr.H = "nil" THEN <<>> ELSE <<hp[pr.H]>>,
     Z |-> IF pr.Z = "nil" THEN <<>> ELSE <<hp[pr.Z]>>,
     R |-> pr.R, C |-> pr.C, hash |-> pr.hash]

\* ------------------------------------------------------- the inputs

\* Two points of order N on each curve.
Gens(c) ==
    IF c = "E7" THEN <<Pt("E7", 0, 1), Pt("E7", 4, 2)>>
    ELSE <<Pt("E5", 0, 1), Pt("E5", 3, 3)>>

\* The caller's k*P, as the tests compute H and Z: curve.ScalarMult(Px, Py, k).
Mul(p, k) ==
    LET r == DoubleAndAdd(p.Curve, XY(p), BigMod(k, Params(p.Curve).N))
    IN  Pt(p.Curve, r[1], r[2])

\* The secrets NewProof is called with: inside [1, N), negative, N and beyond.
SecretScalars == {-2, 1, 7}

\* g = G, h = x*G, m = M, z = n*M
ShapedHeap(c, mi, xx, n) ==
    [g |-> Gens(c)[1], h |-> Mul(Gens(c)[1], xx),
     m |-> Gens(c)[mi], z |-> Mul(Gens(c)[mi], n)]

\* Point values that break a precondition: off the curve, on the other curve
\* (with the coordinates of a point of this one), on the other curve and off it,
\* without a curve, without an X.
Defects ==
    {Pt("E7", 1, 1), Pt("E5", 0, 1), Pt("E5", 2, 2),
     [Curve |-> "nil", X |-> <<0>>, Y |-> <<1>>],
     [Curve |-> "E7", X |-> <<>>, Y |-> <<1>>]}

\* A well-formed quadruple with one or two of its points replaced by a defect.
DefectHeaps ==
    LET base == ShapedHeap("E7", 2, 2, 2)
    IN  {[base EXCEPT ![r1] = d1, ![r2] = d2] :
            r1 \in Refs, r2 \in Refs, d1 \in Defects, d2 \in Defects}

NoRead == [bytes |-> <<>>, err |-> "nil"]
NoTamper == [field |-> "none", bit |-> 0]

InitRest ==
    /\ origin = "none"
    /\ sRet = NoRet
    /\ lastRead = NoRead
    /\ draws = 0
    /\ errAt = 0
    /\ oracle = {}
    /\ proof = <<>>
    /\ err = "nil"
    /\ verdict = "none"
    /\ snapshot = <<>>
    /\ orig = <<>>
    /\ tamper = NoTamper
    /\ mutated = FALSE

\* The caller holds four points, a secret and a hash, and has called nothing yet.
Init ==
    /\ \/ \E c \in Curves, mi \in 1..2, xx \in SecretScalars :
            \E n \in 1..(Params(c).N - 1) :
                /\ heap = ShapedHeap(c, mi, xx, n)
                /\ x = xx
                /\ hash = "SHA256"
       \/ /\ heap \in DefectHeaps
          /\ x = 2
          /\ hash = "SHA256"
       \/ /\ heap = ShapedHeap("E7", 2, 2, 2)
          /\ x = 2
          /\ hash = "none"
    /\ pc = "start"
    /\ sN = 0
    /\ buf = <<>>
    /\ spc = "idle"
    /\ InitRest

\* randScalar called by itself, up to the first pass through its loop.
InitSampler ==
    /\ heap = ShapedHeap("E7", 2, 2, 2)
    /\ x = 2
    /\ hash = "SHA256"
    /\ pc = "randScalar"
    /\ sN \in SamplerOrders
    /\ buf = MakeBuf(ByteSize(sN))
    /\ spc = "loop"
    /\ InitRest

\* ---------------------------------------------------------- the steps

\* NewProof up to and including its call of randScalar, which runs up to its loop.
NewProofBegin ==
    /\ pc = "start"
    /\ origin' = "NewProof"
    /\ LET e == NewProofCheck(heap["g"], heap["h"], heap["m"], heap["z"])
       IN  IF e # "nil"
           THEN /\ pc' = "returned"
                /\ err' = e
                /\ UNCHANGED <<sN, buf, spc>>
           ELSE /\ pc' = "sampling"
                /\ sN' = Params(heap["g"].Curve).N
                /\ buf' = MakeBuf(ByteSize(sN'))
                /\ spc' = "loop"
                /\ err' = "nil"
    /\ UNCHANGED <<heap, hash, x, sRet, lastRead, draws, errAt, oracle, proof,
                   verdict, snapshot, orig, tamper, mutated>>

\* One pass through randScalar's loop: the read, the mask and the comparison.
RandIteration(capped) ==
    /\ spc = "loop"
    /\ capped => draws < MaxDraws
    /\ \E rd \in ReadOutcomes(Len(buf)) :
          LET res == RandScalarIter(sN, buf, rd)
              nth == IF draws < MaxDraws THEN draws + 1 ELSE draws
          IN  /\ lastRead' = rd
              /\ draws' = nth
              /\ errAt' = IF rd.err # "nil" /\ errAt = 0 THEN nth ELSE errAt
              /\ spc' = res.spc
              /\ buf' = res.buf
              /\ sRet' = res.ret
    /\ UNCHANGED <<heap, hash, x, pc, origin, sN, oracle, proof, err, verdict,
                   snapshot, orig, tamper, mutated>>

\* The loop, followed for MaxDraws reads.
RandRead == RandIteration(TRUE)

\* The loop, followed for as long as it runs (draws stops counting at MaxDraws).
RandReadOn == RandIteration(FALSE)

\* NewProof from the return of randScalar to its own return.
NewProofEnd ==
    /\ pc = "sampling"
    /\ spc = "done"
    /\ IF sRet.err # "nil"
       THEN /\ pc' = "returned"
            /\ err' = sRet.err
            /\ UNCHANGED <<oracle, proof, snapshot>>
       ELSE IF hash = "none"
       THEN /\ pc' = "returned"
            /\ err' = "panic"
            /\ UNCHANGED <<oracle, proof, snapshot>>
       ELSE LET g == heap["g"]
                N == Params(g.Curve).N
                t == NewProofTranscript(g, heap["h"], heap["m"], heap["z"], sRet.buf[1])
            IN  \E cBytes \in HashChoices(oracle, t) :
                  LET c == NewProofC(cBytes, N)
                      r == NewProofR(c, x, sRet.k[1], N)
                      pr == [G |-> "g", M |-> "m", H |-> "h", Z |-> "z",
                             R |-> <<r>>, C |-> <<c>>, hash |-> hash]
                  IN  /\ proof' = <<pr>>
                      /\ snapshot' = <<View(pr, heap)>>
                      /\ oracle' = oracle \cup {[t |-> t, d |-> cBytes]}
                      /\ pc' = "built"
                      /\ err' = "nil"
    /\ UNCHANGED <<heap, hash, x, origin, sN, buf, spc, sRet, lastRead, draws,
                   errAt, verdict, orig, tamper, mutated>>

\* A Proof value put together by hand (a received or a corrupted one): the
\* caller's four points, scalars of its choice, and possibly one field left out.
CraftProof ==
    /\ pc = "start"
    /\ \E nf \in {"none", "G", "M", "H", "Z", "R", "C", "hash"},
          r \in CraftScalars, c \in CraftScalars :
          /\ (nf # "none"
              \/ NewProofCheck(heap["g"], heap["h"], heap["m"], heap["z"]) # "nil")
                => (r = 1 /\ c = 1)
          /\ proof' = <<[G |-> IF nf = "G" THEN "nil" ELSE "g",
                         M |-> IF nf = "M" THEN "nil" ELSE "m",
                         H |-> IF nf = "H" THEN "nil" ELSE "h",
                         Z |-> IF nf = "Z" THEN "nil" ELSE "z",
                         R |-> IF nf = "R" THEN <<>> ELSE <<r>>,
                         C |-> IF nf = "C" THEN <<>> ELSE <<c>>,
                         hash |-> IF nf = "hash" THEN "none" ELSE "SHA256"]>>
    /\ origin' = "crafted"
    /\ pc' = "built"
    /\ UNCHANGED <<heap, hash, x, sN, buf, spc, sRet, lastRead, draws, errAt,
                   oracle, err, verdict, snapshot, orig, tamper, mutated>>

\* Proof.Verify
Verify ==
    /\ pc \in {"built", "tampered"}
    /\ proof # <<>>
    /\ LET pr == proof[1]
           pre == VerifyPre(pr, heap)
       IN  IF pre # "ok"
           THEN /\ verdict' = pre
                /\ oracle' = oracle
           ELSE LET t == VerifyTranscript(pr, heap)
                IN  \E c \in HashChoices(oracle, t) :
                      /\ verdict' = VerifyCompare(pr, c)
                      /\ oracle' = oracle \cup {[t |-> t, d |-> c]}
    /\ pc' = IF pc = "built" THEN "verified" ELSE "reverified"
    /\ UNCHANGED <<heap, hash, x, origin, sN, buf, spc, sRet, lastRead, draws,
                   errAt, proof, err, snapshot, orig, tamper, mutated>>

RECURSIVE Pow2(_)
Pow2(i) == IF i = 0 THEN 1 ELSE 2 * Pow2(i - 1)

\* v with bit i flipped
FlipBit(v, i) ==
    IF (v \div Pow2(i)) % 2 = 1 THEN v - Pow2(i) ELSE v + Pow2(i)

Tampered(field, i) ==
    /\ pc = "verified"
    /\ verdict = "true"
    /\ orig' = proof
    /\ tamper' = [field |-> field, bit |-> i]
    /\ pc' = "tampered"
    /\ UNCHANGED <<heap, hash, x, origin, sN, buf, spc, sRet, lastRead, draws,
                   errAt, oracle, err, verdict, snapshot, mutated>>

\* Someone flips one bit of R in a proof that verified.
TamperR ==
    \E i \in 0..MaxBit :
        /\ Tampered("R", i)
        /\ proof' = <<[proof[1] EXCEPT !.R = <<FlipBit(proof[1].R[1], i)>>]>>

\* Someone flips one bit of C in a proof that verified.
TamperC ==
    \E i \in 0..MaxBit :
        /\ Tampered("C", i)
        /\ proof' = <<[proof[1] EXCEPT !.C = <<FlipBit(proof[1].C[1], i)>>]>>

\* After NewProof has returned, the caller writes to one of the Point objects it
\* passed in.
CallerMutates ==
    /\ pc = "built"
    /\ origin = "NewProof"
    /\ ~mutated
    /\ \E r \in Refs, c \in Curves :
          \E p \in {Gens(c)[2], Pt(c, 1, 1)} :
              /\ p # heap[r]
              /\ heap' = [heap EXCEPT ![r] = p]
    /\ mutated' = TRUE
    /\ UNCHANGED <<hash, x, pc, origin, sN, buf, spc, sRet, lastRead, draws, errAt,
                   oracle, proof, err, verdict, snapshot, orig, tamper>>

Next ==
    \/ NewProofBegin
    \/ RandRead
    \/ NewProofEnd
    \/ CraftProof
    \/ Verify
    \/ TamperR
    \/ TamperC

\* Construction (or receipt), verification, tampering and verification again of
\* one proof.
Spec == Init /\ [][Next]_vars

NextAlias ==
    \/ NewProofBegin
    \/ RandRead
    \/ NewProofEnd
    \/ CallerMutates
    \/ Verify

\* Construction of a proof by a caller that goes on using its Point objects,
\* and verification.
SpecAlias == Init /\ [][NextAlias]_vars

NextSampler == RandRead

\* One call of randScalar, over a range of subgroup orders.
SpecSampler == InitSampler /\ [][NextSampler]_vars

NextLive == RandReadOn

\* One call of randScalar that runs for as long as its loop does: a goroutine
\* inside the loop takes its next pass.
SpecLive == InitSampler /\ [][NextLive]_vars /\ WF_vars(NextLive)

\* ------------------------------------------- what the claims speak of

RECURSIVE Times(_, _, _)
\* k*a in the group of curve c, by adding a to itself
Times(c, a, k) == IF k = 0 THEN Infinity ELSE CurveAdd(c, Times(c, a, k - 1), a)

\* 0x04 || X || Y for coordinates of one byte each
Encode(a) == <<4, a[1], a[2]>>

\* The order of the group the caller's g lies in.
OrderN == Params(heap["g"].Curve).N

\* The four points passed to NewProof are well-formed values on one curve.
ValidPoints ==
    /\ \A r \in Refs : Populated(heap[r])
    /\ \A r \in Refs : heap[r].Curve = heap["g"].Curve
    /\ \A r \in Refs : CurveIsOnCurve(heap[r].Curve, heap[r].X[1], heap[r].Y[1])

\* h = k*g
HIs(k) == XY(heap["h"]) = Times(heap["g"].Curve, XY(heap["g"]), k)

\* z = k*m
ZIs(k) == XY(heap["z"]) = Times(heap["m"].Curve, XY(heap["m"]), k)

\* The statement being proved is true and x is its witness.
HonestInputs ==
    /\ ValidPoints
    /\ x \in 1..(OrderN - 1)
    /\ HIs(x)
    /\ ZIs(x)

\* h = x*g, but z = n*m for some other n.
UnequalLogs ==
    /\ ValidPoints
    /\ x \in 1..(OrderN - 1)
    /\ HIs(x)
    /\ \E n \in 1..(OrderN - 1) : n # x /\ ZIs(n)

\* The transcript of the prover, from the group law alone.
ProverTranscript ==
    LET c == heap["g"].Curve
    IN  Encode(XY(heap["g"])) \o Encode(XY(heap["h"])) \o Encode(XY(heap["m"]))
        \o Encode(XY(heap["z"]))
        \o Encode(Times(c, XY(heap["g"]), sRet.k[1]))
        \o Encode(Times(c, XY(heap["m"]), sRet.k[1]))

\* A digest that is the minimal big-endian encoding of a number below n.
Canonical(d, n) == d # <<>> /\ d[1] # 0 /\ SetBytes(d) < n

\* NewProof has returned a proof that nobody has touched since.
FreshProof == origin = "NewProof" /\ pc \in {"built", "verified"} /\ ~mutated

\* ------------------------------------------------------------- claims

\* C1: for honest inputs (x in [1, N), H = x*G, Z = x*M, all on one curve) and
\* every sampled s and every digest of the transcript, NewProof returns a proof
\* without error and Verify on it returns true.
C1_Completeness ==
    (FreshProof /\ HonestInputs) =>
        /\ proof # <<>>
        /\ err = "nil"
        /\ pc = "verified" => verdict = "true"

C3_TamperSensitivity == pc = "reverified" => verdict = "false"

\* C3 amended: a proof that verified, with one bit of R flipped, does not
\* verify; with one bit of C flipped, the transcript Verify hashes is another
\* one than before, and Verify returns true only if the digest of that new
\* transcript is the minimal encoding of the flipped C.
C3_TamperDetected ==
    pc = "reverified" =>
        /\ tamper.field = "R" => verdict = "false"
        /\ tamper.field = "C" =>
              LET t == VerifyTranscript(proof[1], heap)
              IN  /\ t # VerifyTranscript(orig[1], heap)
                  /\ verdict = "true" => Digest(oracle, t) = Bytes(proof[1].C[1])

\* C3, the case: a proof made by NewProof verified, a bit of its R was flipped,
\* and Verify has said false.
C3_Witness ==
    /\ pc = "reverified"
    /\ origin = "NewProof"
    /\ tamper.field = "R"
    /\ verdict = "false"

\* A Proof value that is complete in the sense of the specification: every
\* field populated, the hash and the fields of the points included.
FullyPopulated(pr) ==
    /\ IsComplete(pr)
    /\ pr.hash # "none"
    /\ \A f \in {pr.G, pr.M, pr.H, pr.Z} : Populated(heap[f])

\* C4: Verify on a Proof value that is not complete, or whose points are on
\* different curves or off their curve, returns false and does not panic.
C4_VerifyFailsSoft ==
    (/\ pc = "verified"
     /\ origin = "crafted"
     /\ \/ ~FullyPopulated(proof[1])
        \/ IsSane(proof[1], heap) # "true")
        => verdict = "false"

\* C5: NewProof returns ErrInconsistentCurves when two of the points are on
\* different curves, whether or not a point is off its curve as well;
\* ErrPointOffCurve when the curves agree and a point is off the curve; in both
\* cases no proof and nothing read from the entropy source; a proof only when
\* the points share a curve and are all on it.
C5_NewProofPreconditions ==
    (origin = "NewProof" /\ \A r \in Refs : Populated(heap[r])) =>
        LET differ == Cardinality({heap[r].Curve : r \in Refs}) > 1
            off == \E r \in Refs :
                      ~CurveIsOnCurve(heap[r].Curve, heap[r].X[1], heap[r].Y[1])
            failed(e) == /\ pc = "returned" /\ err = e /\ proof = <<>>
                         /\ draws = 0 /\ spc = "idle"
        IN  /\ differ => failed("ErrInconsistentCurves")
            /\ (~differ /\ off) => failed("ErrPointOffCurve")
            /\ proof # <<>> => (~differ /\ ~off)

\* C5, the case: NewProof has returned on points of two curves, one of them off
\* its curve as well.
C5_Witness ==
    /\ origin = "NewProof"
    /\ pc = "returned"
    /\ err = "ErrInconsistentCurves"
    /\ \A r \in Refs : Populated(heap[r])
    /\ \E r \in Refs : ~CurveIsOnCurve(heap[r].Curve, heap[r].X[1], heap[r].Y[1])

\* The value of a draw once the bits beyond the bit length of n are dropped.
MaskedValue(bytes, n) == SetBytes(bytes) % Pow2(BitLen(n))

\* C6: when randScalar returns without error, its integer k is in [0, N), its
\* slice has ceil(bitlen(N)/8) bytes and is the big-endian encoding of k, and k
\* is the masked value of the last draw itself; while the loop runs on, the last
\* draw had a masked value >= N.
C6_SamplerRange ==
    /\ (spc = "done" /\ sRet.err = "nil") =>
          LET k == sRet.k[1]
              b == sRet.buf[1]
          IN  /\ 0 <= k /\ k < sN
              /\ 8 * Len(b) >= BitLen(sN) /\ 8 * (Len(b) - 1) < BitLen(sN)
              /\ \A i \in 1..Len(b) : b[i] \in 0..255
              /\ SetBytes(b) = k
              /\ k = MaskedValue(lastRead.bytes, sN)
    /\ (spc = "loop" /\ draws > 0) =>
          /\ lastRead.err = "nil"
          /\ MaskedValue(lastRead.bytes, sN) >= sN

\* C6, the case: an order of 9 bits, a first draw that was rejected, and a
\* second one accepted only because its top bits were masked off.
C6_Witness ==
    /\ spc = "done"
    /\ sRet.err = "nil"
    /\ sN = 300
    /\ draws = 2
    /\ SetBytes(lastRead.bytes) >= sN

\* C7: once a read from the entropy source has failed, no further read is made,
\* randScalar has returned (nil, nil, err) with the error of that read, and
\* NewProof returns (nil, err) with the same error and no proof.
C7_EntropyFailure ==
    /\ errAt # 0 =>
          /\ draws = errAt
          /\ lastRead.err # "nil"
          /\ spc = "done"
          /\ sRet = [buf |-> <<>>, k |-> <<>>, err |-> lastRead.err]
          /\ proof = <<>>
          /\ pc \in {"sampling", "returned"}
          /\ pc = "returned" => err = lastRead.err
    /\ (origin = "NewProof" /\ proof # <<>>) => lastRead.err = "nil"

\* C7, the case: the first draw was rejected, the second read failed, and
\* NewProof has returned.
C7_Witness ==
    /\ errAt = 2
    /\ pc = "returned"
    /\ err = "ErrReader"

\* C8: after NewProof has returned, every field of the Proof stays what it was,
\* whatever the caller does with the Point values it passed in.
C8_ProofImmutable ==
    (origin = "NewProof" /\ proof # <<>>) => <<View(proof[1], heap)>> = snapshot

C10_SamplerTerminates == <>(spc = "done")

\* A pass through the loop whose draw was read in full and rejected.
RejectedDraw ==
    /\ spc = "loop"
    /\ spc' = "loop"
    /\ lastRead'.err = "nil"
    /\ MaskedValue(lastRead'.bytes, sN) >= sN

\* C10 amended: a call of randScalar returns unless the entropy source goes on
\* delivering draws whose masked value is >= N; the code sets no bound on the
\* number of redraws.
C10_ReturnsUnlessRejectedForever ==
    <>(spc = "done") \/ []<><<RejectedDraw>>_vars

\* C10, the case: randScalar has returned a scalar after a rejected draw.
C10_Witness ==
    /\ spc = "done"
    /\ sRet.err = "nil"
    /\ draws = 2

====
